---- MODULE Spec2Model ----
(***************************************************************************)
(* Model of src/muffin_fullrange.py: a multi-tier full-range AMM pool.     *)
(*                                                                         *)
(* The program computes over reals (numpy float64).  The properties that   *)
(* are verified here are the ones of exact arithmetic, so a real number is *)
(* modelled as a normalised rational <<n, d>> with d > 0 and gcd(n,d) = 1, *)
(* and every numpy expression is evaluated with the operators below, in    *)
(* the order the source evaluates it.                                      *)
(***************************************************************************)
EXTENDS Integers, Sequences, FiniteSets, TLC

\* ---------------------------------------------------------------- bounds
\* largest number of tiers given to the constructor
MaxTiers == 2
\* largest number of calls (swap or _calc_tier_amts_in) made on one pool
MaxCalls == 2

\* ------------------------------------------------------ exact arithmetic
Abs(x) == IF x < 0 THEN -x ELSE x

RECURSIVE GCD(_, _)
GCD(a, b) == IF b = 0 THEN a ELSE GCD(b, a % b)

Norm(n, d) ==
    LET g == GCD(Abs(n), Abs(d))
        s == IF d < 0 THEN -1 ELSE 1
    IN  <<(s * n) \div g, (s * d) \div g>>

Q(n, d) == Norm(n, d)
Zero == <<0, 1>>
One == <<1, 1>>

\* sums and products cancel common factors before they multiply
Add(a, b) ==
    LET g == GCD(a[2], b[2])
    IN  Norm(a[1] * (b[2] \div g) + b[1] * (a[2] \div g), (a[2] \div g) * b[2])
Neg(a) == <<-a[1], a[2]>>
Sub(a, b) == Add(a, Neg(b))
Mul(a, b) ==
    LET g1 == GCD(Abs(a[1]), b[2])
        g2 == GCD(Abs(b[1]), a[2])
    IN  <<(a[1] \div g1) * (b[1] \div g2), (a[2] \div g2) * (b[2] \div g1)>>
\* a division by zero has no rational value: evaluation stops with an error
Inv(b) == IF b[1] = 0 THEN CHOOSE x \in {} : TRUE
          ELSE IF b[1] < 0 THEN <<-b[2], -b[1]>> ELSE <<b[2], b[1]>>
Div(a, b) == Mul(a, Inv(b))
Lt(a, b) ==
    LET g == GCD(a[2], b[2])
    IN  a[1] * (b[2] \div g) < b[1] * (a[2] \div g)
Le(a, b) ==
    LET g == GCD(a[2], b[2])
    IN  a[1] * (b[2] \div g) <= b[1] * (a[2] \div g)
Gt(a, b) == Lt(b, a)
Ge(a, b) == Le(b, a)

\* np.sum(arr[mask_])
RECURSIVE SumUpTo(_, _, _)
SumUpTo(arr, mask_, n) ==
    IF n = 0 THEN Zero
    ELSE LET rest == SumUpTo(arr, mask_, n - 1)
         IN  IF mask_[n] THEN Add(rest, arr[n]) ELSE rest

Sum(arr, mask_) == SumUpTo(arr, mask_, Len(arr))

\* ---------------------------------------------------------------- inputs
\* values offered to the constructor; the source validates none of them
LiquidityVals == {Q(1, 1), Q(2, 1), Q(0, 1)}
SqrtGammaVals == {Q(1, 2), Q(1, 1), Q(0, 1), Q(-1, 2)}
SqrtPVals == {Q(1, 1)}
\* amounts offered to swap and to _calc_tier_amts_in
SwapAmountVals == {Q(-1, 1), Q(0, 1), Q(1, 2), Q(1, 1), Q(3, 1)}
DirectAmountVals == {Q(-1, 1), Q(0, 1), Q(1, 2)}

SeqsUpTo(S, n) == UNION {[1..k -> S] : k \in 1..n}

\* ----------------------------------------------------------------- state
VARIABLES
    pc,                 \* "new", "idle", "loop" (line 91), "return" (line 97)
    size, liquidity_arr, sqrt_p_arr, sqrt_gamma_arr,
    fee0_growth_arr, fee1_growth_arr,            \* class Pool
    caller,             \* who called _calc_tier_amts_in: "swap" or "direct"
    is_token0, amount,  \* arguments of the running call
    mask, amts,         \* locals of _calc_tier_amts_in
    passes,             \* evaluations of line 92 made by the running call
    ret,                \* what the last call returned (or raised)
    ncalls              \* calls made so far

pool == <<size, liquidity_arr, sqrt_p_arr, sqrt_gamma_arr,
          fee0_growth_arr, fee1_growth_arr>>
frame == <<caller, is_token0, amount, mask, amts, passes>>
vars == <<pc, pool, frame, ret, ncalls>>

NoRet == [kind |-> "none"]

\* The data-model invariants of a pool the arithmetic is defined on.
ValidPool ==
    /\ pc # "new"
    /\ size >= 1
    /\ Len(liquidity_arr) = size
    /\ Len(sqrt_gamma_arr) = size
    /\ Len(sqrt_p_arr) = size
    /\ \A i \in 1..size :
          /\ Gt(liquidity_arr[i], Zero)
          /\ Gt(sqrt_gamma_arr[i], Zero)
          /\ Le(sqrt_gamma_arr[i], One)
          /\ Gt(sqrt_p_arr[i], Zero)

Init ==
    /\ pc = "new"
    /\ size = 0
    /\ liquidity_arr = <<>>
    /\ sqrt_p_arr = <<>>
    /\ sqrt_gamma_arr = <<>>
    /\ fee0_growth_arr = <<>>
    /\ fee1_growth_arr = <<>>
    /\ caller = "none"
    /\ is_token0 = FALSE
    /\ amount = Zero
    /\ mask = <<>>
    /\ amts = <<>>
    /\ passes = 0
    /\ ret = NoRet
    /\ ncalls = 0

\* Pool.__init__: stores its arguments, checks nothing.
Construct(liquidity_in, sqrt_gamma_in, sqrt_p) ==
    /\ pc = "new"
    /\ size' = Len(liquidity_in)
    /\ sqrt_gamma_arr' = sqrt_gamma_in
    /\ liquidity_arr' = liquidity_in
    /\ sqrt_p_arr' = [i \in 1..Len(liquidity_in) |-> sqrt_p]
    /\ fee0_growth_arr' = [i \in 1..Len(liquidity_in) |-> Zero]
    /\ fee1_growth_arr' = [i \in 1..Len(liquidity_in) |-> Zero]
    /\ pc' = "idle"
    /\ UNCHANGED <<frame, ret, ncalls>>

\* gamma = self.sqrt_gamma_arr ** 2
Gamma == [i \in 1..size |-> Mul(sqrt_gamma_arr[i], sqrt_gamma_arr[i])]
\* lsg = self.liquidity_arr / self.sqrt_gamma_arr
Lsg == [i \in 1..size |-> Div(liquidity_arr[i], sqrt_gamma_arr[i])]
\* res = (L / sqrt_p) / gamma if is_token0 else (L * sqrt_p) / gamma
Res(tok0) ==
    [i \in 1..size |->
        IF tok0 THEN Div(Div(liquidity_arr[i], sqrt_p_arr[i]), Gamma[i])
        ELSE Div(Mul(liquidity_arr[i], sqrt_p_arr[i]), Gamma[i])]

\* line 92 with the sums taken over every tier instead of the masked ones
Allocation_UnmaskedSum(lsg, res, m, amt, old) ==
    LET all == [k \in 1..size |-> TRUE]
    IN  [i \in 1..size |->
            IF m[i]
            THEN Sub(Div(Mul(lsg[i], Add(amt, Sum(res, all))), Sum(lsg, all)), res[i])
            ELSE old[i]]

\* line 92 with the operands of the subtraction exchanged
Allocation_Negated(lsg, res, m, amt, old) ==
    [i \in 1..size |->
        IF m[i]
        THEN Sub(res[i], Div(Mul(lsg[i], Add(amt, Sum(res, m))), Sum(lsg, m)))
        ELSE old[i]]

\* amts[mask] = (lsg[mask] * (amount + sum(res[mask])) / sum(lsg[mask])) - res[mask]
Allocation(lsg, res, m, amt, old) ==
    [i \in 1..size |->
        IF m[i]
        THEN Sub(Div(Mul(lsg[i], Add(amt, Sum(res, m))), Sum(lsg, m)), res[i])
        ELSE old[i]]

\* np.all(amts[mask] >= 0)
AllNonNeg(a, m) == \A i \in 1..size : m[i] => Ge(a[i], Zero)

\* line 96 left out
NarrowMask_Kept(m, a) == m

\* mask &= amts >= 0
NarrowMask(m, a) == [i \in 1..size |-> m[i] /\ Ge(a[i], Zero)]

\* line 94 left out
ZeroInactive_Skipped(a, m) == a

\* amts[~mask] = 0
ZeroInactive(a, m) == [i \in 1..size |-> IF m[i] THEN a[i] ELSE Zero]

\* entry of _calc_tier_amts_in (lines 73-87)
EnterCalc(who, tok0, amt) ==
    /\ caller' = who
    /\ is_token0' = tok0
    /\ amount' = amt
    /\ mask' = [i \in 1..size |-> TRUE]
    /\ amts' = [i \in 1..size |-> Zero]
    /\ passes' = 0
    /\ pc' = "loop"
    /\ ret' = NoRet

\* Calls are made on pools that satisfy ValidPool: on any other pool the
\* float arithmetic runs into inf and nan (or numpy raises on the shapes),
\* which rationals do not model and no verified property is about.
\* pool.swap(is_token0, amt_desired), up to the call of line 37
SwapCall(tok0, amt_desired) ==
    /\ pc = "idle"
    /\ ValidPool
    /\ ncalls < MaxCalls
    /\ ncalls' = ncalls + 1
    /\ IF Gt(amt_desired, Zero)
       THEN EnterCalc("swap", tok0, amt_desired)
       ELSE /\ ret' = [kind |-> "AssertionError"]
            /\ UNCHANGED <<pc, frame>>
    /\ UNCHANGED pool

\* pool._calc_tier_amts_in(is_token0, amount) called on its own
DirectCall(tok0, amt) ==
    /\ pc = "idle"
    /\ ValidPool
    /\ ncalls < MaxCalls
    /\ ncalls' = ncalls + 1
    /\ IF Ge(amt, Zero)
       THEN EnterCalc("direct", tok0, amt)
       ELSE /\ ret' = [kind |-> "AssertionError"]
            /\ UNCHANGED <<pc, frame>>
    /\ UNCHANGED pool

\* one pass of the while loop, lines 91-96
LoopPass ==
    /\ pc = "loop"
    /\ LET a == Allocation(Lsg, Res(is_token0), mask, amount, amts)
       IN  IF AllNonNeg(a, mask)
           THEN /\ amts' = ZeroInactive(a, mask)
                /\ mask' = mask
                /\ pc' = "return"
           ELSE /\ amts' = a
                /\ mask' = NarrowMask(mask, a)
                /\ pc' = "loop"
    /\ passes' = passes + 1
    /\ UNCHANGED <<pool, caller, is_token0, amount, ret, ncalls>>

\* line 97, to the direct caller
DirectReturn ==
    /\ pc = "return"
    /\ caller = "direct"
    /\ ret' = [kind |-> "calc", amts |-> amts, mask |-> mask]
    /\ pc' = "idle"
    /\ UNCHANGED <<pool, frame, ncalls>>

\* lines 100-106 with the two branches exchanged
calc_sqrt_p_from_amt_Swapped(tok0, sqrt_p0, liquidity, amt) ==
    IF ~tok0
    THEN Div(Mul(liquidity, sqrt_p0), Add(liquidity, Mul(amt, sqrt_p0)))
    ELSE Add(sqrt_p0, Div(amt, liquidity))

\* calc_sqrt_p_from_amt, lines 100-106 (one tier)
calc_sqrt_p_from_amt(tok0, sqrt_p0, liquidity, amt) ==
    IF tok0
    THEN Div(Mul(liquidity, sqrt_p0), Add(liquidity, Mul(amt, sqrt_p0)))
    ELSE Add(sqrt_p0, Div(amt, liquidity))

\* lines 109-115 with the token1 branch as the comment of line 114 writes it
calc_amt_from_sqrt_p_AsCommented(tok0, sqrt_p0, sqrt_p1, liquidity) ==
    IF tok0
    THEN Div(Mul(liquidity, Sub(sqrt_p0, sqrt_p1)), Mul(sqrt_p0, sqrt_p1))
    ELSE Mul(liquidity, Sub(sqrt_p0, sqrt_p1))

\* calc_amt_from_sqrt_p, lines 109-115 (one tier)
calc_amt_from_sqrt_p(tok0, sqrt_p0, sqrt_p1, liquidity) ==
    IF tok0
    THEN Div(Mul(liquidity, Sub(sqrt_p0, sqrt_p1)), Mul(sqrt_p0, sqrt_p1))
    ELSE Mul(liquidity, Sub(sqrt_p1, sqrt_p0))

\* line 42 without the factor gamma
AmtsInAfterFee_NoFee(amts_in, m) ==
    [i \in 1..size |-> IF m[i] THEN amts_in[i] ELSE Zero]

\* amts_in_after_fee, lines 40-42
AmtsInAfterFee(amts_in, m) ==
    [i \in 1..size |-> IF m[i] THEN Mul(amts_in[i], Gamma[i]) ELSE Zero]

\* sqrt_p_new, lines 45-46
SqrtPNew(tok0, after_fee, m) ==
    [i \in 1..size |->
        IF m[i]
        THEN calc_sqrt_p_from_amt(tok0, sqrt_p_arr[i], liquidity_arr[i], after_fee[i])
        ELSE Zero]

\* amts_out, lines 49-50
AmtsOut(tok0, sqrt_p_new, m) ==
    [i \in 1..size |->
        IF m[i]
        THEN calc_amt_from_sqrt_p(~tok0, sqrt_p_arr[i], sqrt_p_new[i], liquidity_arr[i])
        ELSE Zero]

\* line 54 with the operands of the subtraction exchanged
FeeAmts_Reversed(amts_in, after_fee, m) ==
    [i \in 1..size |-> IF m[i] THEN Sub(after_fee[i], amts_in[i]) ELSE Zero]

\* fee_amts, lines 53-54
FeeAmts(amts_in, after_fee, m) ==
    [i \in 1..size |-> IF m[i] THEN Sub(amts_in[i], after_fee[i]) ELSE Zero]

\* line 57 without the mask
CommitSqrtP_Unmasked(sqrt_p_new, m) == sqrt_p_new

\* self.sqrt_p_arr[mask] = sqrt_p_new[mask], line 57
CommitSqrtP(sqrt_p_new, m) ==
    [i \in 1..size |-> IF m[i] THEN sqrt_p_new[i] ELSE sqrt_p_arr[i]]

\* fee_growth_arr[mask] += fee_amts[mask] / self.liquidity_arr[mask], line 61
GrowFee(fee_growth_arr, fee_amts, m) ==
    [i \in 1..size |->
        IF m[i] THEN Add(fee_growth_arr[i], Div(fee_amts[i], liquidity_arr[i]))
        ELSE fee_growth_arr[i]]

\* line 60: is_exact_in is True past the assert of line 34
SoldIsToken0(tok0) == tok0 = TRUE

\* fee_bps, line 67; a float division by zero yields nan or inf
FeeBps(fee_sum, in_sum) ==
    IF in_sum[1] = 0 THEN (IF fee_sum[1] = 0 THEN <<"nan">> ELSE <<"inf">>)
    ELSE Mul(Div(fee_sum, in_sum), Q(10000, 1))

\* the rest of swap once _calc_tier_amts_in has returned, lines 37-71
SwapReturn ==
    /\ pc = "return"
    /\ caller = "swap"
    /\ LET after_fee == AmtsInAfterFee(amts, mask)
           sqrt_p_new == SqrtPNew(is_token0, after_fee, mask)
           amts_out == AmtsOut(is_token0, sqrt_p_new, mask)
           fee_amts == FeeAmts(amts, after_fee, mask)
       IN  /\ sqrt_p_arr' = CommitSqrtP(sqrt_p_new, mask)
           /\ IF SoldIsToken0(is_token0)
              THEN /\ fee0_growth_arr' = GrowFee(fee0_growth_arr, fee_amts, mask)
                   /\ UNCHANGED fee1_growth_arr
              ELSE /\ fee1_growth_arr' = GrowFee(fee1_growth_arr, fee_amts, mask)
                   /\ UNCHANGED fee0_growth_arr
           /\ ret' = [kind |-> "swap",
                      amt_in |-> Sum(amts, mask),
                      amt_out |-> Sum(amts_out, mask),
                      fee_amt |-> Sum(fee_amts, mask),
                      fee_bps |-> FeeBps(Sum(fee_amts, mask), Sum(amts, mask)),
                      amts_in |-> amts,
                      amts_out |-> amts_out,
                      fee_amts |-> fee_amts]
    /\ pc' = "idle"
    /\ UNCHANGED <<size, liquidity_arr, sqrt_gamma_arr, frame, ncalls>>

\* Pool(liquidity_arr, sqrt_gamma_arr, sqrt_p), with any arguments
NewPool ==
    /\ pc = "new"
    /\ \E l \in SeqsUpTo(LiquidityVals, MaxTiers),
          g \in SeqsUpTo(SqrtGammaVals, MaxTiers),
          p \in SqrtPVals : Construct(l, g, p)

Next ==
    \/ NewPool
    \/ \E t \in BOOLEAN, a \in SwapAmountVals : SwapCall(t, a)
    \/ \E t \in BOOLEAN, a \in DirectAmountVals : DirectCall(t, a)
    \/ LoopPass
    \/ DirectReturn
    \/ SwapReturn

Spec == Init /\ [][Next]_vars

\* --------------------------------------------------------------- claims
AllTiers == [i \in 1..size |-> TRUE]
CalcDone == pc = "return"
SwapDone == pc = "idle" /\ ret.kind = "swap"
\* the step that runs lines 39-71 of swap
SwapStep == pc = "return" /\ caller = "swap"

\* C1: the amounts _calc_tier_amts_in returns sum to exactly the requested
\* input, over the active tiers and over the whole array; swap's amt_in is
\* the sum of its amts_in array and is the requested amount.
C1_AmountConservation ==
    /\ CalcDone => /\ Sum(amts, mask) = amount
                   /\ Sum(amts, AllTiers) = amount
    /\ SwapDone => /\ ret.amt_in = Sum(ret.amts_in, AllTiers)
                   /\ ret.amt_in = amount

C1_Witness ==
    /\ SwapDone
    /\ size = 2
    /\ \A i \in 1..size : mask[i] /\ Gt(ret.amts_in[i], Zero)

\* C2: every entry of the returned amount array is >= 0, and every tier
\* outside the returned mask has allocation exactly 0.
C2_NonNegativeAllocation ==
    CalcDone => \A i \in 1..size :
                    /\ Ge(amts[i], Zero)
                    /\ ~mask[i] => amts[i] = Zero

C2_Witness ==
    /\ CalcDone
    /\ \E i \in 1..size : ~mask[i]
    /\ \E i \in 1..size : mask[i] /\ Gt(amts[i], Zero)

C4_MonotonicPrice ==
    [][SwapStep =>
          /\ \A i \in 1..size :
                (mask[i] /\ Gt(amts[i], Zero)) =>
                    IF is_token0 THEN Lt(sqrt_p_arr'[i], sqrt_p_arr[i])
                    ELSE Gt(sqrt_p_arr'[i], sqrt_p_arr[i])
          /\ \A i \in 1..size : Gt(sqrt_p_arr'[i], Zero)]_vars

\* two tiers in the final mask, one with a positive allocation, whose price
\* has moved, and one with an allocation of exactly 0
C4_Witness ==
    /\ SwapDone
    /\ size = 2
    /\ \E i, j \in 1..size :
          /\ mask[i] /\ Gt(ret.amts_in[i], Zero) /\ sqrt_p_arr[i] # One
          /\ mask[j] /\ ret.amts_in[j] = Zero

\* C5: from one state to the next no fee-growth accumulator decreases, and
\* every accumulator is >= 0.
C5_FeeGrowthMonotonic ==
    [][pc # "new" =>
          \A i \in 1..size :
              /\ Ge(fee0_growth_arr'[i], fee0_growth_arr[i])
              /\ Ge(fee1_growth_arr'[i], fee1_growth_arr[i])
              /\ Ge(fee0_growth_arr'[i], Zero)
              /\ Ge(fee1_growth_arr'[i], Zero)]_vars

C5_Witness ==
    /\ SwapDone
    /\ ncalls = 2
    /\ \E i \in 1..size : /\ Gt(fee0_growth_arr[i], Zero)
                           /\ Gt(fee1_growth_arr[i], Zero)

\* C6: a swap changes only sqrt_price and the sold token's fee growth of the
\* tiers in the final mask; the other fee-growth array, the inactive tiers,
\* liquidity, sqrt_gamma and size stay as they were, and no other step of
\* a call changes the pool.
C6_SwapFrame ==
    [][IF SwapStep
       THEN /\ size' = size
            /\ liquidity_arr' = liquidity_arr
            /\ sqrt_gamma_arr' = sqrt_gamma_arr
            /\ IF is_token0 THEN fee1_growth_arr' = fee1_growth_arr
               ELSE fee0_growth_arr' = fee0_growth_arr
            /\ \A i \in 1..size :
                  ~mask[i] => /\ sqrt_p_arr'[i] = sqrt_p_arr[i]
                              /\ fee0_growth_arr'[i] = fee0_growth_arr[i]
                              /\ fee1_growth_arr'[i] = fee1_growth_arr[i]
       ELSE pc # "new" => pool' = pool]_vars

C6_Witness ==
    /\ SwapDone
    /\ size = 2
    /\ \E i \in 1..size : ~mask[i]
    /\ \E i \in 1..size : mask[i] /\ sqrt_p_arr[i] # One

\* C7 as stated: no constructed pool has misaligned arrays, a non-positive
\* liquidity or a sqrt_gamma outside (0, 1].
C7_ConstructionValidated ==
    pc # "new" =>
        /\ Len(liquidity_arr) = Len(sqrt_gamma_arr)
        /\ \A i \in 1..Len(liquidity_arr) : Gt(liquidity_arr[i], Zero)
        /\ \A i \in 1..Len(sqrt_gamma_arr) :
              Gt(sqrt_gamma_arr[i], Zero) /\ Le(sqrt_gamma_arr[i], One)

\* C8: the repair loop evaluates the allocation formula at most size times;
\* a pass that does not end the loop removes at least one tier from the mask
\* and adds none.
C8_LoopBounded ==
    [][pc = "loop" =>
          /\ passes' <= size
          /\ pc' = "loop" =>
                /\ \A i \in 1..size : mask'[i] => mask[i]
                /\ \E i \in 1..size : mask[i] /\ ~mask'[i]]_vars

C8_Witness ==
    /\ CalcDone
    /\ size = 2
    /\ passes = 2

\* C9: after a swap all tiers of the final mask have the same fee-adjusted
\* price: sqrt_price * sqrt_gamma when token0 was sold, sqrt_price /
\* sqrt_gamma when token1 was sold.
C9_EqualMarginalPrice ==
    SwapDone =>
        \A i, j \in 1..size :
            (mask[i] /\ mask[j]) =>
                IF is_token0
                THEN Mul(sqrt_p_arr[i], sqrt_gamma_arr[i])
                        = Mul(sqrt_p_arr[j], sqrt_gamma_arr[j])
                ELSE Div(sqrt_p_arr[i], sqrt_gamma_arr[i])
                        = Div(sqrt_p_arr[j], sqrt_gamma_arr[j])

\* both tiers active, with different fees, in a second swap made in the
\* direction opposite to the first, which had left the two prices unequal
C9_Witness ==
    /\ SwapDone
    /\ size = 2
    /\ mask[1] /\ mask[2]
    /\ sqrt_gamma_arr[1] # sqrt_gamma_arr[2]
    /\ \E i \in 1..size : Gt(fee0_growth_arr[i], Zero)
    /\ \E i \in 1..size : Gt(fee1_growth_arr[i], Zero)

====
